---- MODULE Spec2Model ----
(***************************************************************************)
(* A model of the CIS4 decoder of read_cis.py: the BitReader, the chunk    *)
(* decoder (CISDecoder.decode_chunk / decode_micro_cube) and the region    *)
(* pass (CISVisualizer.parse_region).                                      *)
(*                                                                         *)
(* Three specifications share the definitions:                             *)
(*   SpecBits    a BitReader over a buffer, driven by arbitrary calls      *)
(*   Spec        decode_chunk over a byte stream, one step per field,      *)
(*               micro-cube and block record                               *)
(*   SpecRegion  parse_region over the 256-entry table, running the same   *)
(*               decode_chunk steps for every slot it decodes              *)
(***************************************************************************)
EXTENDS Integers, Sequences, FiniteSets, TLC

VARIABLES
  reader,   \* the BitReader: [data, byte_index, bit_index]
  call,     \* the last BitReader call made by a client: [op, bits, ret, start]
  f,        \* the byte stream of the CISDecoder: [bytes, pos]
  pc,       \* the position of decode_chunk
  exc,      \* the exception that ended decode_chunk, or "none"
  chunk,    \* the locals of decode_chunk
  cube,     \* the locals of decode_micro_cube
  rec,      \* what the last block record read: its start cursor, flags, fields
  result,   \* what decode_chunk returned
  region    \* parse_region: the table, the slot index, self.chunks

vars == <<reader, call, f, pc, exc, chunk, cube, rec, result, region>>

----------------------------------------------------------------------------
(* Bounds of the model *)

\* Longest buffer handed to a stand-alone BitReader, in bytes.
MaxBytes == 4
\* Widest read a client of the stand-alone BitReader asks for.
MaxReadBits == 29

\* The stand-alone buffers: byte i is (a + b * i) % 256 for a seed <<a, b>>,
\* which gives 165 165 165 ..., 165 14 119 ... and 129 3 133 ...
BufferSeeds == {<<165, 0>>, <<60, 105>>, <<255, 130>>}
Buffers ==
  {[i \in 1 .. k |-> (sd[1] + sd[2] * i) % 256] :
     k \in 0 .. MaxBytes, sd \in BufferSeeds}

----------------------------------------------------------------------------
(* Arithmetic helpers *)

Min(a, b) == IF a <= b THEN a ELSE b

RECURSIVE Pow2(_)
\* 1 << k
Pow2(k) == IF k <= 0 THEN 1 ELSE 2 * Pow2(k - 1)

----------------------------------------------------------------------------
(* BitReader *)

\* BitReader.__init__
NewReader(data) == [data |-> data, byte_index |-> 0, bit_index |-> 0]

\* the early return at the end of the buffer, with a fault: no zero padding
EofReturnNoPad(acc, bits) == acc

\* `return result << bits` when the buffer is used up
EofReturn(acc, bits) == acc * Pow2(bits)

\* the piece of the byte, with a fault: the low bits of the byte first
PieceLsb(b, remaining, take) == b % Pow2(take)

\* chunk = (b >> (remaining - take)) & ((1 << take) - 1)
Piece(b, remaining, take) == (b \div Pow2(remaining - take)) % Pow2(take)

\* the cursor update, with a fault: bit_index wraps but byte_index stays
AdvanceSameByte(byte_index, bi) ==
  IF bi = 8 THEN <<byte_index, 0>> ELSE <<byte_index, bi>>

\* if self.bit_index == 8: self.byte_index += 1; self.bit_index = 0
Advance(byte_index, bi) ==
  IF bi = 8 THEN <<byte_index + 1, 0>> ELSE <<byte_index, bi>>

RECURSIVE ReadLoop(_, _, _, _, _)
\* the while loop of BitReader.read: the result and the new cursor
ReadLoop(data, byte_index, bit_index, bits, acc) ==
  IF bits <= 0
    THEN [result |-> acc, byte_index |-> byte_index, bit_index |-> bit_index]
  ELSE IF byte_index >= Len(data)
    THEN [result |-> EofReturn(acc, bits), byte_index |-> byte_index,
          bit_index |-> bit_index]
  ELSE LET b == data[byte_index + 1] % 256
           remaining == 8 - bit_index
           take == Min(remaining, bits)
           acc2 == acc * Pow2(take) + Piece(b, remaining, take)
           next == Advance(byte_index, bit_index + take)
       IN  ReadLoop(data, next[1], next[2], bits - take, acc2)

\* BitReader.read(bits): [result, reader]
Read(r, bits) ==
  IF bits = 0
    THEN [result |-> 0, reader |-> r]
    ELSE LET o == ReadLoop(r.data, r.byte_index, r.bit_index, bits, 0)
         IN  [result |-> o.result,
              reader |-> [r EXCEPT !.byte_index = o.byte_index,
                                   !.bit_index = o.bit_index]]

\* BitReader.read_bool
ReadBool(r) ==
  LET o == Read(r, 1) IN [result |-> (o.result = 1), reader |-> o.reader]

\* (n >> 1) ^ -(n & 1): x ^ 0 is x, and x ^ -1 is ~x, which is -x - 1
ZigzagDecode(n) ==
  LET h == n \div 2 IN IF n % 2 = 1 THEN -h - 1 ELSE h

\* BitReader.read_zigzag(bits)
ReadZigzag(r, bits) ==
  LET o == Read(r, bits)
  IN  [result |-> ZigzagDecode(o.result), reader |-> o.reader]

\* the bits of the buffer from position s on
BitsLeft(data, s) == 8 * Len(data) - s

\* the cursor of a reader, in bits from the start of its buffer
CursorPos(r) == r.byte_index * 8 + r.bit_index

----------------------------------------------------------------------------
(* The byte stream self.f and struct.unpack *)

\* self.f.read(k): at most k bytes, fewer at the end of the stream
FRead(s, k) ==
  LET end == Min(s.pos + k, Len(s.bytes))
  IN  [bytes |-> SubSeq(s.bytes, s.pos + 1, end), f |-> [s EXCEPT !.pos = end]]

RECURSIVE BigEndian(_)
\* struct.unpack(">I", b)[0] and struct.unpack(">H", b)[0] on a well-sized b
BigEndian(b) ==
  IF b = <<>> THEN 0
  ELSE BigEndian(SubSeq(b, 1, Len(b) - 1)) * 256 + b[Len(b)]

\* the four bytes "CIS4"; BigEndian(MagicBytes) is 0x43495334
MagicBytes == <<67, 73, 83, 52>>

\* the magic test, with a fault: every magic is accepted
MagicAny(magic) == TRUE

\* magic == 0x43495334
MagicOk(magic) == magic = BigEndian(MagicBytes)

----------------------------------------------------------------------------
(* Block state names *)

\* self.mapping, as loaded by load_mapping: mapping id -> name
MappingIds == {42, 7}
MappingName(id) == IF id = 42 THEN "stone_stairs" ELSE "dirt"

\* get_facing_str: "none" stands for None
get_facing_str(facing_id) ==
  CASE facing_id = 0 -> "down"
    [] facing_id = 1 -> "up"
    [] facing_id = 2 -> "north"
    [] facing_id = 3 -> "south"
    [] facing_id = 4 -> "west"
    [] facing_id = 5 -> "east"
    [] OTHER -> "none"

\* full_name: base is the mapped name, or "unknown" with the id as its suffix
\* (f"unknown_{mapping_id}"); facing is the [facing=...] suffix or "none"
FullName(mapping_id, facing_data) ==
  [base |-> IF mapping_id \in MappingIds THEN MappingName(mapping_id)
            ELSE "unknown",
   num |-> IF mapping_id \in MappingIds THEN -1 ELSE mapping_id,
   facing |-> get_facing_str(facing_data)]

\* the literal "INVALID"
InvalidState == [base |-> "INVALID", num |-> -1, facing |-> "none"]

\* the state lookup, with a fault: the last palette entry counts as out of range
ResolveStateShort(global_palette, gid) ==
  IF gid < Len(global_palette) - 1 THEN global_palette[gid + 1]
  ELSE InvalidState

\* global_palette[gid] if gid < len(global_palette) else "INVALID"
ResolveState(global_palette, gid) ==
  IF gid < Len(global_palette) THEN global_palette[gid + 1] ELSE InvalidState

----------------------------------------------------------------------------
(* decode_chunk and decode_micro_cube: the locals *)

\* the 4 x 4 x 4 micro-cubes of a section (for my, for mz, for mx in range(4))
CubesPerSection == 64

IdleReader == NewReader(<<>>)
IdleCall == [op |-> "none", bits |-> 0, ret |-> 0, start |-> 0]
IdleStream == [bytes |-> <<>>, pos |-> 0]
IdleChunk ==
  [version |-> 0, pal_left |-> 0, global_palette |-> <<>>, inst_data |-> <<>>,
   be_count |-> 0, section_count |-> 0, sections_done |-> 0, sy |-> 0,
   mc |-> 0, all_blocks |-> <<>>]
IdleCube ==
  [palette_size |-> 0, local_to_global |-> <<>>, block_count |-> 0,
   bits_per_id |-> 0, last_ly |-> 0, last_lxz |-> 0, last_lid |-> 0,
   blocks |-> <<>>, n |-> 0]
IdleRec ==
  [start |-> 0, has_dy |-> FALSE, has_xz |-> FALSE, has_id |-> FALSE,
   log |-> <<>>]
\* decode_chunk has not returned
Pending ==
  [kind |-> "pending", version |-> 0, palette |-> <<>>, blocks |-> <<>>,
   be_count |-> 0]
\* return None
NoneResult == [Pending EXCEPT !.kind = "none"]
IdleRegion == [table |-> <<>>, i |-> 0, chunks |-> <<>>, active |-> FALSE]

\* decode_chunk is running: it has neither returned nor raised
Running == pc # "done" /\ pc # "idle" /\ exc = "none"

\* raise: the exception leaves decode_chunk where it stands
Raise(e) == exc' = e /\ UNCHANGED <<pc, chunk, cube, rec, result>>

RECURSIVE BitLength(_)
\* int.bit_length
BitLength(n) == IF n <= 0 THEN 0 ELSE 1 + BitLength(n \div 2)

RECURSIVE ReadPalette(_, _)
\* [reader.read(16) for _ in range(k)]: [vals, reader]
ReadPalette(r, k) ==
  IF k = 0 THEN [vals |-> <<>>, reader |-> r]
  ELSE LET o == Read(r, 16)
           rest == ReadPalette(o.reader, k - 1)
       IN  [vals |-> <<o.result>> \o rest.vals, reader |-> rest.reader]

\* the start of a micro-cube, with a fault: the running state is carried over
CarriedLast(prev) == <<prev.last_ly, prev.last_lxz, prev.last_lid>>

\* last_ly, last_lxz, last_lid = 0, 0, 0
FreshLast(prev) == <<0, 0, 0>>

\* the id guard, with a fault: a one-entry palette reads the id flag too
HasIdFieldAlways(palette_size) == palette_size >= 1

\* if palette_size > 1
HasIdField(palette_size) == palette_size > 1

----------------------------------------------------------------------------
(* decode_chunk, one action per field read *)

\* magic_bytes = self.f.read(4) ... if magic != 0x43495334: return None
ReadMagic ==
  /\ Running /\ pc = "magic"
  /\ LET r == FRead(f, 4)
     IN  /\ f' = r.f
         /\ IF r.bytes = <<>>
              THEN /\ result' = NoneResult /\ pc' = "done"
                   /\ UNCHANGED <<exc, chunk, cube, rec>>
            ELSE IF Len(r.bytes) # 4
              THEN Raise("struct.error")
            ELSE IF ~MagicOk(BigEndian(r.bytes))
              THEN /\ result' = NoneResult /\ pc' = "done"
                   /\ UNCHANGED <<exc, chunk, cube, rec>>
            ELSE /\ pc' = "version"
                 /\ UNCHANGED <<exc, chunk, cube, rec, result>>
  /\ UNCHANGED <<reader, call, region>>

\* version = struct.unpack(">I", self.f.read(4))[0]
ReadVersion ==
  /\ Running /\ pc = "version"
  /\ LET r == FRead(f, 4)
     IN  /\ f' = r.f
         /\ IF Len(r.bytes) # 4
              THEN Raise("struct.error")
              ELSE /\ chunk' = [chunk EXCEPT !.version = BigEndian(r.bytes)]
                   /\ pc' = "palette_size"
                   /\ UNCHANGED <<exc, cube, rec, result>>
  /\ UNCHANGED <<reader, call, region>>

\* palette_size = struct.unpack(">I", self.f.read(4))[0]; global_palette = []
ReadPaletteSize ==
  /\ Running /\ pc = "palette_size"
  /\ LET r == FRead(f, 4)
     IN  /\ f' = r.f
         /\ IF Len(r.bytes) # 4
              THEN Raise("struct.error")
              ELSE /\ chunk' = [chunk EXCEPT !.pal_left = BigEndian(r.bytes),
                                             !.global_palette = <<>>]
                   /\ pc' = IF BigEndian(r.bytes) = 0 THEN "inst"
                            ELSE "palette_entry"
                   /\ UNCHANGED <<exc, cube, rec, result>>
  /\ UNCHANGED <<reader, call, region>>

\* one iteration of `for _ in range(palette_size)`
ReadPaletteEntry ==
  /\ Running /\ pc = "palette_entry"
  /\ LET a == FRead(f, 2)
         b == FRead(a.f, 1)
     IN  IF Len(a.bytes) # 2
           THEN /\ f' = a.f /\ Raise("struct.error")
         ELSE IF Len(b.bytes) # 1
           THEN /\ f' = b.f /\ Raise("TypeError")
         ELSE /\ f' = b.f
              /\ chunk' =
                   [chunk EXCEPT
                      !.global_palette =
                         Append(@, FullName(BigEndian(a.bytes), b.bytes[1])),
                      !.pal_left = @ - 1]
              /\ pc' = IF chunk.pal_left = 1 THEN "inst" ELSE "palette_entry"
              /\ UNCHANGED <<exc, cube, rec, result>>
  /\ UNCHANGED <<reader, call, region>>

\* inst_len = struct.unpack(">I", self.f.read(4))[0]; inst_data = self.f.read(inst_len)
ReadInst ==
  /\ Running /\ pc = "inst"
  /\ LET a == FRead(f, 4)
         d == FRead(a.f, BigEndian(a.bytes))
     IN  IF Len(a.bytes) # 4
           THEN /\ f' = a.f /\ Raise("struct.error")
           ELSE /\ f' = d.f
                /\ chunk' = [chunk EXCEPT !.inst_data = d.bytes]
                /\ pc' = "be_count"
                /\ UNCHANGED <<exc, cube, rec, result>>
  /\ UNCHANGED <<reader, call, region>>

\* be_count_data = self.f.read(4)
\* be_count = struct.unpack(">I", be_count_data)[0] if be_count_data else 0
ReadBlockEntityCount ==
  /\ Running /\ pc = "be_count"
  /\ LET r == FRead(f, 4)
     IN  /\ f' = r.f
         /\ IF r.bytes = <<>>
              THEN /\ chunk' = [chunk EXCEPT !.be_count = 0]
                   /\ pc' = "section_count"
                   /\ UNCHANGED <<exc, cube, rec, result>>
            ELSE IF Len(r.bytes) # 4
              THEN Raise("struct.error")
            ELSE /\ chunk' = [chunk EXCEPT !.be_count = BigEndian(r.bytes)]
                 /\ pc' = "section_count"
                 /\ UNCHANGED <<exc, cube, rec, result>>
  /\ UNCHANGED <<reader, call, region>>

\* reader = BitReader(inst_data); section_count = reader.read(16); all_blocks = []
ReadSectionCount ==
  /\ Running /\ pc = "section_count"
  /\ LET o == Read(NewReader(chunk.inst_data), 16)
     IN  /\ reader' = o.reader
         /\ chunk' = [chunk EXCEPT !.section_count = o.result,
                                   !.sections_done = 0, !.all_blocks = <<>>]
         /\ pc' = IF o.result = 0 THEN "return" ELSE "section"
  /\ UNCHANGED <<call, f, exc, cube, rec, result, region>>

\* sy = reader.read_zigzag(16), at the head of `for _ in range(section_count)`
ReadSectionY ==
  /\ Running /\ pc = "section"
  /\ LET o == ReadZigzag(reader, 16)
     IN  /\ reader' = o.reader
         /\ chunk' = [chunk EXCEPT !.sy = o.result, !.mc = 0]
         /\ pc' = "cube"
  /\ UNCHANGED <<call, f, exc, cube, rec, result, region>>

\* where decode_chunk goes after micro-cube number chunk.mc has returned
AfterCube ==
  IF chunk.mc + 1 < CubesPerSection THEN "cube"
  ELSE IF chunk.sections_done + 1 < chunk.section_count THEN "section"
  ELSE "return"

\* the loop counters of decode_chunk after micro-cube number chunk.mc
NextCube(c) ==
  IF c.mc + 1 < CubesPerSection THEN [c EXCEPT !.mc = @ + 1]
  ELSE [c EXCEPT !.mc = 0, !.sections_done = @ + 1]

\* decode_micro_cube up to its block loop: the palette size, the local
\* palette, the block count, bits_per_id and the running state
CubeStart ==
  /\ Running /\ pc = "cube"
  /\ LET s == Read(reader, 8)
         p == ReadPalette(s.reader, s.result)
         c == Read(p.reader, 7)
         last == FreshLast(cube)
     IN  IF s.result = 0
           THEN \* if palette_size == 0: return []
                /\ reader' = s.reader
                /\ chunk' = NextCube(chunk)
                /\ pc' = AfterCube
                /\ UNCHANGED <<cube, rec>>
           ELSE /\ reader' = c.reader
                /\ cube' = [palette_size |-> s.result,
                            local_to_global |-> p.vals,
                            block_count |-> c.result,
                            bits_per_id |-> IF s.result > 1
                                              THEN BitLength(s.result - 1)
                                              ELSE 0,
                            last_ly |-> last[1], last_lxz |-> last[2],
                            last_lid |-> last[3],
                            blocks |-> <<>>, n |-> 0]
                /\ rec' = [IdleRec EXCEPT !.start = CursorPos(c.reader)]
                /\ pc' = "block"
                /\ UNCHANGED chunk
  /\ UNCHANGED <<call, f, exc, result, region>>

\* a field of a block record that was read, and one that was reused
Flagged(o) == [flag |-> TRUE, result |-> o.result, reader |-> o.reader]
Unflagged(v, r) == [flag |-> FALSE, result |-> v, reader |-> r]

\* dy = reader.read_zigzag(6) if reader.read_bool() else 0
ReadDy(r) ==
  LET fl == ReadBool(r)
  IN  IF fl.result THEN Flagged(ReadZigzag(fl.reader, 6))
      ELSE Unflagged(0, fl.reader)

\* lxz = reader.read(8) if reader.read_bool() else last_lxz
ReadXz(r, last_lxz) ==
  LET fl == ReadBool(r)
  IN  IF fl.result THEN Flagged(Read(fl.reader, 8))
      ELSE Unflagged(last_lxz, fl.reader)

\* lid = last_lid; if palette_size > 1: if reader.read_bool(): lid = reader.read(bits_per_id)
ReadId(r, c) ==
  IF HasIdField(c.palette_size)
    THEN LET fl == ReadBool(r)
         IN  IF fl.result THEN Flagged(Read(fl.reader, c.bits_per_id))
             ELSE Unflagged(c.last_lid, fl.reader)
    ELSE Unflagged(c.last_lid, r)

\* the three fields of one block record, read in order
ReadRecord(r, c) ==
  LET dy == ReadDy(r)
      xz == ReadXz(dy.reader, c.last_lxz)
  IN  [dy |-> dy, xz |-> xz, id |-> ReadId(xz.reader, c)]

\* one iteration of `for _ in range(block_count)` in decode_micro_cube
BlockRecord ==
  /\ Running /\ pc = "block" /\ cube.n < cube.block_count
  /\ LET d == ReadRecord(reader, cube)
     IN  /\ reader' = d.id.reader
         /\ rec' = [start |-> CursorPos(reader), has_dy |-> d.dy.flag,
                    has_xz |-> d.xz.flag, has_id |-> d.id.flag,
                    log |-> Append(rec.log,
                              [dy |-> d.dy.result,
                               xz |-> IF d.xz.flag THEN d.xz.result ELSE -1,
                               id |-> IF d.id.flag THEN d.id.result ELSE -1])]
         /\ IF d.id.result >= Len(cube.local_to_global)
              THEN \* gid = local_to_global[lid] raises IndexError
                   /\ exc' = "IndexError"
                   /\ UNCHANGED <<pc, chunk, cube, result>>
              ELSE LET lid == d.id.result
                       lxz == d.xz.result
                       ly == cube.last_ly + d.dy.result
                       gid == cube.local_to_global[lid + 1]
                       blk == [x |-> lxz % 16,
                               y |-> chunk.sy * 16 + ly,
                               z |-> lxz \div 16,
                               state |-> ResolveState(chunk.global_palette, gid)]
                   IN  /\ cube' = [cube EXCEPT !.blocks = Append(@, blk),
                                               !.last_ly = ly,
                                               !.last_lxz = lxz,
                                               !.last_lid = lid,
                                               !.n = @ + 1]
                       /\ UNCHANGED <<pc, exc, chunk, result>>
  /\ UNCHANGED <<call, f, region>>

\* return blocks, and all_blocks.extend(res) in decode_chunk
CubeReturn ==
  /\ Running /\ pc = "block" /\ cube.n >= cube.block_count
  /\ chunk' = [NextCube(chunk) EXCEPT !.all_blocks = @ \o cube.blocks]
  /\ pc' = AfterCube
  /\ UNCHANGED <<reader, call, f, exc, cube, rec, result, region>>

\* return {"version": ..., "palette": ..., "blocks": ..., "be_count": ...}
ReturnRecord ==
  /\ Running /\ pc = "return"
  /\ result' = [kind |-> "record", version |-> chunk.version,
                palette |-> chunk.global_palette,
                blocks |-> chunk.all_blocks, be_count |-> chunk.be_count]
  /\ pc' = "done"
  /\ UNCHANGED <<reader, call, f, exc, chunk, cube, rec, region>>

\* the steps of decode_chunk
DecodeStep ==
  \/ ReadMagic
  \/ ReadVersion
  \/ ReadPaletteSize
  \/ ReadPaletteEntry
  \/ ReadInst
  \/ ReadBlockEntityCount
  \/ ReadSectionCount
  \/ ReadSectionY
  \/ CubeStart
  \/ BlockRecord
  \/ CubeReturn
  \/ ReturnRecord

----------------------------------------------------------------------------
(* The inputs of decode_chunk: chunk payloads written field by field in the
   layout decode_chunk reads, MSB-first, then cut or damaged *)

\* Most block records written into one micro-cube.
MaxBlocks == 2
\* Largest local palette written into one micro-cube.
MaxLocal == 3

RECURSIVE Bits(_, _)
\* the w bits of v, most significant first
Bits(w, v) == IF w = 0 THEN <<>> ELSE Bits(w - 1, v \div 2) \o <<v % 2>>

RECURSIVE BitsValue(_)
BitsValue(b) ==
  IF b = <<>> THEN 0 ELSE 2 * BitsValue(SubSeq(b, 1, Len(b) - 1)) + b[Len(b)]

RECURSIVE PackBits(_)
\* the bits as bytes, the last byte filled with zero bits
PackBits(b) ==
  IF b = <<>> THEN <<>>
  ELSE IF Len(b) < 8 THEN <<BitsValue(b) * Pow2(8 - Len(b))>>
  ELSE <<BitsValue(SubSeq(b, 1, 8))>> \o PackBits(SubSeq(b, 9, Len(b)))

RECURSIVE Flatten(_)
Flatten(ss) == IF ss = <<>> THEN <<>> ELSE Head(ss) \o Flatten(Tail(ss))

U16(v) == <<(v \div 256) % 256, v % 256>>
U32(v) == <<(v \div 16777216) % 256, (v \div 65536) % 256>> \o U16(v)

\* the global palette of the written chunks, as (mapping id, facing) pairs:
\* stone_stairs[facing=north], dirt, unknown_9[facing=down]
WrittenPalette == <<<<42, 2>>, <<7, 9>>, <<9, 0>>>>

\* a block record as written: each field is absent (-1) or its raw value
NoFlags == [dy |-> -1, xz |-> -1, id |-> -1]
\* the record shapes written into a micro-cube with a palette of `size`
Shapes(size) ==
  IF size = 1
    THEN {NoFlags, [NoFlags EXCEPT !.dy = 3], [NoFlags EXCEPT !.xz = 115],
          [NoFlags EXCEPT !.dy = 2, !.xz = 165]}
    ELSE {NoFlags, [NoFlags EXCEPT !.dy = 2, !.xz = 165]}
         \cup {[NoFlags EXCEPT !.id = v] : v \in 0 .. Pow2(BitLength(size - 1)) - 1}

\* the local palettes written: global ids in and out of WrittenPalette
PalettesOf(size) ==
  IF size = 1 THEN {<<0>>, <<Len(WrittenPalette)>>}
  ELSE {[i \in 1 .. size |-> (i + 1) % (Len(WrittenPalette) + 1)]}

SeqsUpTo(S, n) == UNION {[1 .. k -> S] : k \in 0 .. n}

\* the micro-cubes written first in a section
CubeSet ==
  {[palette |-> <<>>, records |-> <<>>]}
  \cup UNION {{[palette |-> p, records |-> rs] :
                 p \in PalettesOf(size), rs \in SeqsUpTo(Shapes(size), MaxBlocks)} :
              size \in 1 .. MaxLocal}

\* the micro-cube written second, when there is one: it reuses every field
SecondCube == [palette |-> <<1, 0>>, records |-> <<NoFlags, NoFlags>>]

EncRecord(r, size) ==
  (IF r.dy >= 0 THEN <<1>> \o Bits(6, r.dy) ELSE <<0>>)
  \o (IF r.xz >= 0 THEN <<1>> \o Bits(8, r.xz) ELSE <<0>>)
  \o (IF size > 1
        THEN IF r.id >= 0 THEN <<1>> \o Bits(BitLength(size - 1), r.id)
             ELSE <<0>>
        ELSE <<>>)

EncCube(c) ==
  LET size == Len(c.palette)
  IN  IF size = 0 THEN Bits(8, 0)
      ELSE Bits(8, size)
           \o Flatten([i \in 1 .. size |-> Bits(16, c.palette[i])])
           \o Bits(7, Len(c.records))
           \o Flatten([i \in 1 .. Len(c.records) |-> EncRecord(c.records[i], size)])

\* an instruction stream: the section count, then for the first section its
\* zigzag y and the micro-cubes written; what is not written is read past the end
EncInst(nsec, sy_raw, cubes) ==
  PackBits(Bits(16, nsec)
           \o (IF nsec = 0 THEN <<>>
               ELSE Bits(16, sy_raw)
                    \o Flatten([i \in 1 .. Len(cubes) |-> EncCube(cubes[i])])))

\* a chunk payload
Frame(magic, palette, inst, tail) ==
  magic \o U32(1) \o U32(Len(palette))
  \o Flatten([i \in 1 .. Len(palette) |-> U16(palette[i][1]) \o <<palette[i][2]>>])
  \o U32(Len(inst)) \o inst \o tail

\* a written block_entity_count of 5
FullTail == U32(5)

\* payloads that differ in their instruction stream: one section, a first
\* micro-cube of CubeSet, with or without a second, the last byte cut or not
InstStreams ==
  {Frame(MagicBytes, WrittenPalette,
         LET d == EncInst(1, v[1], IF v[2] THEN <<c, SecondCube>> ELSE <<c>>)
         IN  SubSeq(d, 1, Len(d) - v[3]),
         FullTail) :
     c \in CubeSet,
     v \in {<<0, FALSE, 0>>, <<1, TRUE, 0>>, <<0, FALSE, 1>>, <<6, TRUE, 1>>}}

\* the payload whose framing is varied: one section at y 0, one block
BaseInst ==
  EncInst(1, 0, <<[palette |-> <<0>>,
                   records |-> <<[NoFlags EXCEPT !.dy = 10, !.xz = 115]>>]>>)
BaseFrame == Frame(MagicBytes, WrittenPalette, BaseInst, FullTail)

\* payloads that differ in their framing: every prefix of BaseFrame, a wrong
\* magic, an empty palette with no section, two sections
FrameStreams ==
  {SubSeq(BaseFrame, 1, k) : k \in 0 .. Len(BaseFrame)}
  \cup {Frame(m, WrittenPalette, BaseInst, FullTail) :
          m \in {<<67, 73, 83, 51>>, <<0, 0, 0, 0>>}}
  \cup {<<67, 73, 83, 51>>}
  \cup {Frame(MagicBytes, <<>>, EncInst(0, 0, <<>>), t) : t \in {<<>>, FullTail}}
  \cup {Frame(MagicBytes, WrittenPalette,
              EncInst(2, 0, <<[palette |-> <<1, 3>>,
                               records |-> <<[NoFlags EXCEPT !.id = 1]>>]>>),
              t) : t \in {<<>>, <<0>>, FullTail}}

ChunkStreams == InstStreams \cup FrameStreams

\* CISDecoder(stream, mapping) about to run decode_chunk
StartDecoder(bytes) ==
  /\ f = [bytes |-> bytes, pos |-> 0]
  /\ pc = "magic"
  /\ exc = "none"
  /\ chunk = IdleChunk
  /\ cube = IdleCube
  /\ rec = IdleRec
  /\ result = Pending
  /\ reader = IdleReader

Init ==
  /\ \E bytes \in ChunkStreams : StartDecoder(bytes)
  /\ call = IdleCall
  /\ region = IdleRegion

Next == DecodeStep

Spec == Init /\ [][Next]_vars

----------------------------------------------------------------------------
(* What the claims about decode_chunk are stated in: the layout of the
   stream as written, and the fields the block records of the current
   micro-cube held *)

\* decode_chunk has returned or raised
Finished == pc = "done" \/ exc # "none"

HasMagic(bytes) == Len(bytes) >= 4 /\ SubSeq(bytes, 1, 4) = MagicBytes

\* where the inst_len field starts, for a stream of at least 12 bytes
InstLenOffset(bytes) == 12 + 3 * BigEndian(SubSeq(bytes, 9, 12))

\* the magic is right and version, global palette and inst_len are complete
Framed(bytes) ==
  /\ HasMagic(bytes)
  /\ Len(bytes) >= 12
  /\ Len(bytes) >= InstLenOffset(bytes) + 4

\* the bytes that follow the instruction bytes of a framed stream
TailLen(bytes) ==
  LET o == InstLenOffset(bytes)
      n == BigEndian(SubSeq(bytes, o + 1, o + 4))
  IN  Len(bytes) - Min(Len(bytes), o + 4 + n)

RECURSIVE SumDy(_, _)
\* the sum of the y deltas of records 1..k (0 for a clear y flag)
SumDy(log, k) == IF k = 0 THEN 0 ELSE SumDy(log, k - 1) + log[k].dy

RECURSIVE LastXz(_, _)
\* the most recent xz byte among records 1..k, 0 if none
LastXz(log, k) ==
  IF k = 0 THEN 0
  ELSE IF log[k].xz >= 0 THEN log[k].xz ELSE LastXz(log, k - 1)

RECURSIVE LastId(_, _)
\* the most recent id among records 1..k, 0 if none
LastId(log, k) ==
  IF k = 0 THEN 0
  ELSE IF log[k].id >= 0 THEN log[k].id ELSE LastId(log, k - 1)

\* the state a block of global id gid is to carry
ExpectedState(gid) ==
  IF gid >= Len(chunk.global_palette) THEN InvalidState
  ELSE chunk.global_palette[gid + 1]

\* the bits one block record asks for, by the flags it read
RecordBits == 2 + (IF rec.has_dy THEN 6 ELSE 0) + (IF rec.has_xz THEN 8 ELSE 0)

\* a block record of the current micro-cube has just been decoded
AfterRecord == pc = "block" /\ exc = "none" /\ cube.n >= 1

\* C1 as stated: a non-empty stream that does not start with the magic makes
\* decode_chunk fail with an error, which the caller can tell from the
\* "no chunk" of an empty stream.
C1_BadMagicFails ==
  (Finished /\ f.bytes # <<>> /\ ~HasMagic(f.bytes))
    => (exc # "none" /\ result.kind # "none")

\* C1 as amended: a stream of at least 4 bytes that does not start with the
\* magic makes decode_chunk return None, no error raised and nothing else
\* returned, which is what it returns on an empty stream; a non-empty stream
\* of fewer than 4 bytes raises struct.error.
C1_BadMagicIsNoChunk ==
  Finished =>
    /\ (Len(f.bytes) >= 4 /\ ~HasMagic(f.bytes))
         => (exc = "none" /\ result = NoneResult)
    /\ f.bytes = <<>> => (exc = "none" /\ result = NoneResult)
    /\ Len(f.bytes) \in 1 .. 3 => (exc = "struct.error" /\ result = Pending)

C1_Witness ==
  /\ pc = "done" /\ Len(f.bytes) > 4 /\ ~HasMagic(f.bytes)
  /\ result = NoneResult

\* C2: a framed chunk always decodes to a ChunkRecord and never raises,
\* whatever its instruction bits are (the trailing field being whole or
\* absent): the local palette lookup of a block record does not fail.
C2_FramedNeverRaises ==
  (Framed(f.bytes) /\ TailLen(f.bytes) \notin 1 .. 3)
    => /\ exc = "none"
       /\ pc = "done" => result.kind = "record"

\* C3: every block of the micro-cube carries the global palette entry of its
\* global id, or "INVALID" when that id is not below the palette's length;
\* an out-of-range global id raises nothing, and the records after it are
\* decoded.
C3_InvalidState ==
  pc = "block" =>
    /\ Len(cube.blocks) = cube.n /\ cube.n <= cube.block_count
    /\ \A k \in 1 .. Len(cube.blocks) :
         cube.blocks[k].state =
           ExpectedState(cube.local_to_global[LastId(rec.log, k) + 1])
    /\ exc # "none" => LastId(rec.log, Len(rec.log)) >= cube.palette_size

C3_Witness ==
  /\ pc = "block" /\ exc = "none" /\ cube.n = 2
  /\ cube.blocks[1].state = InvalidState
  /\ cube.blocks[2].state # InvalidState

\* C7: a framed stream that ends before a whole block_entity_count (0 to 3
\* bytes after the instruction bytes) does not make decode_chunk fail there:
\* the count is 0 in the ChunkRecord returned.
C7_TruncatedTail ==
  (Framed(f.bytes) /\ TailLen(f.bytes) < 4)
    => /\ ~(exc = "struct.error" /\ pc = "be_count")
       /\ (pc = "done" /\ exc = "none")
            => (result.kind = "record" /\ result.be_count = 0)

\* C8 as stated: with a one-entry local palette each block record moves the
\* cursor by exactly 2 flag bits, plus 6 for a set y flag, plus 8 for a set xz
\* flag; no id flag is read and the local id is 0.
C8_OneEntryExactBits ==
  (AfterRecord /\ cube.palette_size = 1)
    => /\ CursorPos(reader) - rec.start = RecordBits
       /\ ~rec.has_id /\ cube.last_lid = 0

\* C8 as amended: with a one-entry local palette each block record moves the
\* cursor by 2 flag bits, plus 6 for a set y flag, plus 8 for a set xz flag,
\* or to the end of the buffer when fewer bits than that are left; no id flag
\* is read, and every block uses local id 0.
C8_OneEntryNoIdBits ==
  (AfterRecord /\ cube.palette_size = 1)
    => /\ CursorPos(reader) - rec.start
            = Min(RecordBits, BitsLeft(reader.data, rec.start))
       /\ ~rec.has_id /\ cube.last_lid = 0
       /\ \A k \in 1 .. Len(cube.blocks) :
            cube.blocks[k].state = ExpectedState(cube.local_to_global[1])

C8_Witness ==
  /\ AfterRecord /\ cube.palette_size = 1 /\ cube.n = 2
  /\ rec.has_dy /\ rec.has_xz
  /\ CursorPos(reader) - rec.start = 16

\* C9: every micro-cube starts its running state at (0, 0, 0); its k-th block
\* has y = section_y * 16 + the y deltas of records 1..k, x and z the low and
\* high nibble of the most recent xz byte of this micro-cube (0 if none), and
\* the state of the most recent id of this micro-cube (0 if none).
C9_RunningState ==
  pc = "block" =>
    /\ cube.n = 0 =>
         (cube.last_ly = 0 /\ cube.last_lxz = 0 /\ cube.last_lid = 0)
    /\ \A k \in 1 .. Len(cube.blocks) :
         /\ cube.blocks[k].y = chunk.sy * 16 + SumDy(rec.log, k)
         /\ cube.blocks[k].x = LastXz(rec.log, k) % 16
         /\ cube.blocks[k].z = LastXz(rec.log, k) \div 16
         /\ cube.blocks[k].state =
              ExpectedState(cube.local_to_global[LastId(rec.log, k) + 1])
    /\ exc = "none" =>
         /\ cube.last_ly = SumDy(rec.log, cube.n)
         /\ cube.last_lxz = LastXz(rec.log, cube.n)
         /\ cube.last_lid = LastId(rec.log, cube.n)

C9_Witness ==
  /\ pc = "block" /\ exc = "none"
  /\ chunk.mc = 1 /\ cube.n = 2 /\ chunk.sy # 0
  /\ Len(chunk.all_blocks) = 2
  /\ chunk.all_blocks[2].x # 0 /\ chunk.all_blocks[2].y # chunk.sy * 16
  /\ cube.blocks[2].x = 0 /\ cube.blocks[2].y = chunk.sy * 16

----------------------------------------------------------------------------
(* SpecBits: a BitReader over a buffer, its methods called in any order *)

\* the widths read_zigzag is called with (section_y, dy)
ZigzagWidths == {6, 16}

InitBits ==
  /\ \E data \in Buffers : reader = NewReader(data)
  /\ call = IdleCall
  /\ f = IdleStream
  /\ pc = "idle"
  /\ exc = "none"
  /\ chunk = IdleChunk
  /\ cube = IdleCube
  /\ rec = IdleRec
  /\ result = Pending
  /\ region = IdleRegion

\* reader.read(n)
ClientRead(n) ==
  /\ pc = "idle" /\ ~region.active
  /\ LET o == Read(reader, n)
     IN  /\ reader' = o.reader
         /\ call' = [op |-> "read", bits |-> n, ret |-> o.result,
                     start |-> CursorPos(reader)]
  /\ UNCHANGED <<f, pc, exc, chunk, cube, rec, result, region>>

\* reader.read_bool(): ret is 1 for True, 0 for False
ClientReadBool ==
  /\ pc = "idle" /\ ~region.active
  /\ LET o == ReadBool(reader)
     IN  /\ reader' = o.reader
         /\ call' = [op |-> "read_bool", bits |-> 1,
                     ret |-> IF o.result THEN 1 ELSE 0,
                     start |-> CursorPos(reader)]
  /\ UNCHANGED <<f, pc, exc, chunk, cube, rec, result, region>>

\* reader.read_zigzag(n)
ClientReadZigzag(n) ==
  /\ pc = "idle" /\ ~region.active
  /\ LET o == ReadZigzag(reader, n)
     IN  /\ reader' = o.reader
         /\ call' = [op |-> "read_zigzag", bits |-> n, ret |-> o.result,
                     start |-> CursorPos(reader)]
  /\ UNCHANGED <<f, pc, exc, chunk, cube, rec, result, region>>

NextBits ==
  \/ \E n \in 0 .. MaxReadBits : ClientRead(n)
  \/ ClientReadBool
  \/ \E n \in ZigzagWidths : ClientReadZigzag(n)

SpecBits == InitBits /\ [][NextBits]_vars

(* The reference the reads are compared with: bit p of the buffer, counted
   from the most significant bit of byte 0, and the unsigned value of n bits
   from position s on *)
BitAt(data, p) == (data[(p \div 8) + 1] \div Pow2(7 - (p % 8))) % 2

RECURSIVE RefValue(_, _, _)
RefValue(data, s, n) ==
  IF n = 0 THEN 0 ELSE 2 * RefValue(data, s, n - 1) + BitAt(data, s + n - 1)

\* the buffer followed by k zero bytes
ZeroPad(data, k) == data \o [i \in 1 .. k |-> 0]

\* C6: a read(n) that finds n bits left returns those n bits, most significant
\* first across byte boundaries, and moves the cursor by exactly n bits;
\* read(0) returns 0 and leaves the cursor where it is.
C6_ReadMsbFirst ==
  (call.op = "read" /\ call.bits <= BitsLeft(reader.data, call.start))
    => /\ call.ret = RefValue(reader.data, call.start, call.bits)
       /\ CursorPos(reader) = call.start + call.bits
       /\ (call.bits = 0 => call.ret = 0)

C6_Witness ==
  /\ call.op = "read" /\ call.bits = MaxReadBits
  /\ call.start % 8 # 0
  /\ call.bits <= BitsLeft(reader.data, call.start)
  /\ call.ret > 0

\* C5: a read(n), n >= 1, that finds fewer than n bits left returns what
\* read(n) returns from the same cursor on the buffer extended with zero
\* bytes: the bits that are left, followed by zero low-order bits.
C5_ReadPastEnd ==
  (call.op = "read" /\ call.bits >= 1
     /\ call.bits > BitsLeft(reader.data, call.start))
    => LET left == BitsLeft(reader.data, call.start)
           padded == ZeroPad(reader.data, (call.bits \div 8) + 1)
       IN  /\ call.ret = RefValue(padded, call.start, call.bits)
           /\ call.ret = ReadLoop(padded, call.start \div 8, call.start % 8,
                                  call.bits, 0).result
           /\ call.ret = RefValue(reader.data, call.start, left)
                           * Pow2(call.bits - left)

C5_Witness ==
  /\ call.op = "read"
  /\ call.bits > BitsLeft(reader.data, call.start)
  /\ BitsLeft(reader.data, call.start) > 0
  /\ call.start % 8 # 0
  /\ call.ret > 0

\* C10: bit_index stays in 0..7 and byte_index at most len(data), and no call
\* of read, read_bool or read_zigzag moves the cursor backward.
C10_CursorForward ==
  /\ [](reader.bit_index \in 0 .. 7 /\ reader.byte_index <= Len(reader.data))
  /\ [][CursorPos(reader') >= CursorPos(reader)]_vars

C10_Witness ==
  /\ call.op = "read_zigzag"
  /\ call.bits > BitsLeft(reader.data, call.start)
  /\ BitsLeft(reader.data, call.start) > 0
  /\ reader.byte_index = Len(reader.data)

----------------------------------------------------------------------------
(* SpecRegion: parse_region over the offset table of a region file *)

\* for i in range(256)
RegionSlots == 256
\* lx, lz = i % 16, i // 16
GridWidth == 16

\* what the file holds at a slot's offset, by the slot's kind: whether
\* zlib.decompress accepts the bytes, and what they inflate to
SlotKinds == {"absent", "corrupt", "badmagic", "truncated", "indexerror", "valid"}
Inflated(kind) ==
  CASE kind = "badmagic" -> Frame(<<67, 73, 83, 51>>, WrittenPalette, BaseInst, FullTail)
    [] kind = "truncated" -> SubSeq(BaseFrame, 1, 6)
    [] kind = "indexerror" ->
         Frame(MagicBytes, WrittenPalette,
               EncInst(1, 0, <<[palette |-> <<0, 1, 2>>,
                                records |-> <<[NoFlags EXCEPT !.id = 3]>>]>>),
               FullTail)
    [] kind = "valid" -> BaseFrame
    [] OTHER -> <<>>

\* the table entry of a slot of each kind: (offset, length), both 0 if absent
Entry(i, kind) ==
  [off |-> IF kind = "absent" THEN 0 ELSE 2048 + 64 * i,
   length |-> IF kind = "absent" THEN 0 ELSE 64,
   kind |-> kind]

\* the slots whose kind varies; slot 1 has a length of 0, slot 2 an offset
\* of 0, slot 16 inflates to an empty stream, every other slot is absent
HotSlots == {0, 17, 255}
Tables ==
  {[n \in 1 .. RegionSlots |->
      LET i == n - 1
      IN  IF i \in HotSlots THEN Entry(i, k[i])
          ELSE IF i = 1 THEN [Entry(i, "valid") EXCEPT !.length = 0]
          ELSE IF i = 2 THEN [Entry(i, "valid") EXCEPT !.off = 0]
          ELSE IF i = 16 THEN Entry(i, "empty")
          ELSE Entry(i, "absent")] :
     k \in [HotSlots -> SlotKinds]}

InitRegion ==
  /\ \E t \in Tables :
       region = [table |-> t, i |-> 0, chunks |-> <<>>, active |-> TRUE]
  /\ call = IdleCall
  /\ reader = IdleReader
  /\ f = IdleStream
  /\ pc = "idle"
  /\ exc = "none"
  /\ chunk = IdleChunk
  /\ cube = IdleCube
  /\ rec = IdleRec
  /\ result = Pending

\* the slot parse_region stands at
Slot == region.table[region.i + 1]

\* the slot index after a failed slot, with a fault: the failure ends the pass
AbortPass(i) == RegionSlots

\* except: pass, and the loop goes on with the next slot
AfterFailedSlot(i) == i + 1

\* a slot that `if off > 0 and length > 0` passes over
SlotSkip ==
  /\ region.active /\ pc = "idle" /\ region.i < RegionSlots
  /\ ~(Slot.off > 0 /\ Slot.length > 0)
  /\ region' = [region EXCEPT !.i = @ + 1]
  /\ UNCHANGED <<reader, call, f, pc, exc, chunk, cube, rec, result>>

\* f.seek(off); data = f.read(length); decompressed = zlib.decompress(data);
\* CISDecoder(io.BytesIO(decompressed), self.mapping_data) enters decode_chunk
SlotOpen ==
  /\ region.active /\ pc = "idle" /\ region.i < RegionSlots
  /\ Slot.off > 0 /\ Slot.length > 0
  /\ IF Slot.kind = "corrupt"
       THEN \* zlib.error, caught by `except: pass`
            /\ region' = [region EXCEPT !.i = AfterFailedSlot(@)]
            /\ UNCHANGED <<f, pc>>
       ELSE /\ f' = [bytes |-> Inflated(Slot.kind), pos |-> 0]
            /\ pc' = "magic"
            /\ UNCHANGED region
  /\ UNCHANGED <<reader, call, exc, chunk, cube, rec, result>>

\* decode_chunk has raised (except: pass) or returned (if chunk_data: append)
SlotClose ==
  /\ region.active /\ Finished
  /\ IF exc # "none"
       THEN region' = [region EXCEPT !.i = AfterFailedSlot(@)]
       ELSE region' =
              [region EXCEPT
                 !.i = @ + 1,
                 !.chunks =
                    IF result.kind = "record"
                      THEN Append(@, [pos |-> <<region.i % GridWidth,
                                                region.i \div GridWidth>>,
                                      data |-> result])
                      ELSE @]
  /\ pc' = "idle"
  /\ exc' = "none"
  /\ f' = IdleStream
  /\ reader' = IdleReader
  /\ chunk' = IdleChunk
  /\ cube' = IdleCube
  /\ rec' = IdleRec
  /\ result' = Pending
  /\ UNCHANGED call

NextRegion ==
  \/ SlotSkip
  \/ SlotOpen
  \/ DecodeStep
  \/ SlotClose

SpecRegion == InitRegion /\ [][NextRegion]_vars

\* the block the valid chunk holds: (3, 5, 7), stone_stairs[facing=north]
ValidBlock ==
  [x |-> 3, y |-> 5, z |-> 7,
   state |-> [base |-> "stone_stairs", num |-> -1, facing |-> "north"]]

\* the coordinates of the valid slots among the first n, in index order
ExpectedPositions(table, n) ==
  LET Valid(k) == table[k].off > 0 /\ table[k].length > 0
                    /\ table[k].kind = "valid"
      idx == SelectSeq([k \in 1 .. n |-> k], Valid)
  IN  [j \in 1 .. Len(idx) |-> <<(idx[j] - 1) % 16, (idx[j] - 1) \div 16>>]

\* C4: whatever the other slots hold (bytes that do not inflate, a chunk that
\* fails to decode), every slot with offset > 0 and length > 0 that holds a
\* valid chunk is decoded and reported, in index order, at (i mod 16, i div 16).
C4_SlotIsolation ==
  (region.active /\ pc = "idle") =>
    LET want == ExpectedPositions(region.table, region.i)
    IN  /\ Len(region.chunks) = Len(want)
        /\ \A k \in 1 .. Len(want) :
             /\ region.chunks[k].pos = want[k]
             /\ region.chunks[k].data.kind = "record"
             /\ region.chunks[k].data.blocks = <<ValidBlock>>

C4_Witness ==
  /\ region.active /\ region.i = RegionSlots
  /\ region.table[1].kind = "indexerror"
  /\ region.table[18].kind = "corrupt"
  /\ region.table[256].kind = "valid"
  /\ Len(region.chunks) = 1

====
